---------------------------- MODULE Spec2Model ----------------------------
(***************************************************************************)
(* A model of geoloc/view.py: the CSV coordinate loader, the palette       *)
(* generator, the bounds aggregator, the command-line driver main and the  *)
(* PNG snapshot fallback chain.                                            *)
(*                                                                         *)
(* Text is a sequence of one-character strings, so that strip(), lower(),  *)
(* split() and float() are computed character by character.  A decimal     *)
(* number is the record [k |-> "num", m |-> mantissa, d |-> fraction       *)
(* digits] in canonical form (no trailing fraction zero): it stands for    *)
(* m / 10^d.  Python indices are kept 0-based; row[i] is Nth(row, i).      *)
(***************************************************************************)
EXTENDS Integers, Sequences, FiniteSets, TLC

VARIABLES
    \* load_csv_points
    header,      \* first record of the file (<<>>: no header row / blank line)
    rows,        \* the data records read so far, in file order
    l_pc,        \* "idle" | "open" | "rows" | "returned" | "raised"
    lat_idx,     \* resolved latitude column
    lon_idx,     \* resolved longitude column
    row_i,       \* number of data records consumed by the for loop
    points,      \* the list being built
    \* generate_palette
    p_pc,        \* "idle" | "call" | "done"
    p_n,         \* argument n
    p_i,         \* loop index i
    colors,      \* returned list
    \* fit_bounds_from_points
    b_pc,        \* "idle" | "call" | "done"
    points_by_file, \* argument (a sequence of trajectories: dict values in order)
    b_i,         \* number of trajectories consumed by the outer for loop
    lats,        \* list lats
    lons,        \* list lons
    bounds,      \* returned value
    \* main
    m_pc,        \* "idle" | "start" | "loading" | "mapped" | "exit" | "raised"
    csv_files,   \* sorted list of files (each [header, rows])
    m_i,         \* number of files consumed by the for loop
    kept,        \* points_by_file of main: sequence of [name, pts] in insertion order
    colors_by_file, \* sequence of [name, color]
    ok,          \* result of snapshot_html_to_png seen by main
    exit_code,   \* value returned by main
    \* snapshot_html_to_png
    s_pc,        \* position in the function
    env,         \* which steps of the external tools fail
    attempts,    \* exporters attempted, in order
    written,     \* exporters that wrote the screenshot, in order
    pending,     \* what the try block left for its finally clause: "return" | "exc"
    created,     \* drivers created
    quit_called, \* drivers on which quit() was called
    ret          \* returned value

loaderVars   == <<header, rows, l_pc, lat_idx, lon_idx, row_i, points>>
paletteVars  == <<p_pc, p_n, p_i, colors>>
boundsVars   == <<b_pc, points_by_file, b_i, lats, lons, bounds>>
mainVars     == <<m_pc, csv_files, m_i, kept, colors_by_file, ok, exit_code>>
snapshotVars == <<s_pc, env, attempts, written, pending, created, quit_called, ret>>
vars == <<loaderVars, paletteVars, boundsVars, mainVars, snapshotVars>>

---------------------------------------------------------------------------
(* Bounds of the model *)
MaxRows == 2
MaxN == 13
MaxFiles == 3
MaxTraj == 2
MaxPts == 2

---------------------------------------------------------------------------
(* Generic helpers *)

Nth(s, i) == s[i + 1]

Max2(a, b) == IF a >= b THEN a ELSE b

RECURSIVE Pow10(_)
Pow10(d) == IF d = 0 THEN 1 ELSE 10 * Pow10(d - 1)

SeqsUpTo(S, n) == UNION {[1..k -> S] : k \in 0..n}

Range(s) == {s[i] : i \in DOMAIN s}

\* Python's None for an index that is not resolved
NoIdx == -1

---------------------------------------------------------------------------
(* Characters and strings *)

Upper == <<"A","B","C","D","E","F","G","H","I","J","K","L","M",
           "N","O","P","Q","R","S","T","U","V","W","X","Y","Z">>
Lower == <<"a","b","c","d","e","f","g","h","i","j","k","l","m",
           "n","o","p","q","r","s","t","u","v","w","x","y","z">>

Digits == <<"0","1","2","3","4","5","6","7","8","9">>

Whitespace == {" "}

IsDigit(c) == \E i \in 1..10 : Digits[i] = c

DigitVal(c) == (CHOOSE i \in 1..10 : Digits[i] = c) - 1

\* str.lower() on one character
LowerChar(c) ==
    IF \E i \in 1..26 : Upper[i] = c
    THEN Lower[CHOOSE i \in 1..26 : Upper[i] = c]
    ELSE c

\* str.lower()
StrLower(s) == [i \in 1..Len(s) |-> LowerChar(s[i])]

RECURSIVE LStrip(_)
LStrip(s) ==
    IF s = <<>> THEN s
    ELSE IF Head(s) \in Whitespace THEN LStrip(Tail(s)) ELSE s

RECURSIVE RStrip(_)
RStrip(s) ==
    IF s = <<>> THEN s
    ELSE IF s[Len(s)] \in Whitespace THEN RStrip(SubSeq(s, 1, Len(s) - 1)) ELSE s

\* str.strip()
Strip(s) == RStrip(LStrip(s))

\* "," in s
HasComma(s) == \E i \in 1..Len(s) : s[i] = ","

\* s.split(",", 1) for a string that holds a comma
SplitFirstComma(s) ==
    LET p == CHOOSE i \in 1..Len(s) : s[i] = "," /\ \A j \in 1..(i - 1) : s[j] # ","
    IN  <<SubSeq(s, 1, p - 1), SubSeq(s, p + 1, Len(s))>>

---------------------------------------------------------------------------
(* float(): sign, digits with at most one point, or inf / infinity / nan. *)
(* The modelled texts hold no exponent, underscore or hexadecimal form.    *)

PyNone == [k |-> "none", m |-> 0, d |-> 0]
Num(mm, dd) == [k |-> "num", m |-> mm, d |-> dd]
Inf(sgn) == [k |-> "inf", m |-> sgn, d |-> 0]
NaN == [k |-> "nan", m |-> 0, d |-> 0]

RECURSIVE Canon(_, _)
Canon(mm, dd) ==
    IF dd > 0 /\ mm % 10 = 0 THEN Canon(mm \div 10, dd - 1) ELSE Num(mm, dd)

RECURSIVE DigitsValue(_)
DigitsValue(ds) ==
    IF ds = <<>> THEN 0
    ELSE 10 * DigitsValue(SubSeq(ds, 1, Len(ds) - 1)) + DigitVal(ds[Len(ds)])

W_inf == <<"i","n","f">>
W_infinity == <<"i","n","f","i","n","i","t","y">>
W_nan == <<"n","a","n">>

\* the unsigned part of a float literal; PyNone stands for ValueError
FloatUnsigned(t) ==
    LET dots == {i \in 1..Len(t) : t[i] = "."}
        ds == SelectSeq(t, IsDigit)
    IN  IF StrLower(t) \in {W_inf, W_infinity} THEN Inf(1)
        ELSE IF StrLower(t) = W_nan THEN NaN
        ELSE IF /\ Cardinality(dots) <= 1
                /\ Len(ds) >= 1
                /\ \A i \in 1..Len(t) : IsDigit(t[i]) \/ t[i] = "."
        THEN Canon(DigitsValue(ds),
                   IF dots = {} THEN 0 ELSE Len(t) - (CHOOSE i \in dots : TRUE))
        ELSE PyNone

Negate(v) == [v EXCEPT !.m = 0 - v.m]

\* float(s): surrounding whitespace is ignored, one optional sign
PyFloat(s) ==
    LET t == Strip(s)
    IN  IF t = <<>> THEN PyNone
        ELSE IF Head(t) = "-" THEN
            (IF FloatUnsigned(Tail(t)).k = "none" THEN PyNone
             ELSE Negate(FloatUnsigned(Tail(t))))
        ELSE IF Head(t) = "+" THEN FloatUnsigned(Tail(t))
        ELSE FloatUnsigned(t)

\* parse_float: None on ValueError and on NaN
parse_float(value) ==
    LET v == PyFloat(Strip(value))
    IN  IF v.k = "none" THEN PyNone
        ELSE IF v.k = "nan" THEN PyNone
        ELSE v

\* lo <= v <= hi for integers lo, hi (an infinity is outside every range)
Between(lo, v, hi) ==
    /\ v.k = "num"
    /\ lo * Pow10(v.d) <= v.m
    /\ v.m <= hi * Pow10(v.d)

LatMax == 90
LonMax == 180

\* ValidCoord without the longitude test
ValidCoord_NoLon(lat, lon) == Between(0 - LatMax, lat, LatMax)

\* -90.0 <= lat <= 90.0 and -180.0 <= lon <= 180.0
ValidCoord(lat, lon) ==
    /\ Between(0 - LatMax, lat, LatMax)
    /\ Between(0 - LonMax, lon, LonMax)

---------------------------------------------------------------------------
(* load_csv_points: column resolution *)

lat_candidates == { <<"l","a","t","i","t","u","d","e">>, <<"l","a","t">>, <<"y">> }
lon_candidates == { <<"l","o","n","g","i","t","u","d","e">>, <<"l","o","n">>,
                    <<"l","n","g">>, <<"x">> }

\* cols = [c.strip().lower() for c in header]
NormCols(h) == [i \in 1..Len(h) |-> StrLower(Strip(h[i]))]

\* the first index i (0-based) with cols[i] in cands, else None
FirstMatch(cols, cands) ==
    IF \E i \in 1..Len(cols) : cols[i] \in cands
    THEN (CHOOSE i \in 1..Len(cols) :
            /\ cols[i] \in cands
            /\ \A j \in 1..(i - 1) : cols[j] \notin cands) - 1
    ELSE NoIdx

\* ResolveIdx without the 2-column fallback of lines 105-106
ResolveIdx_NoPairFallback(h) ==
    LET cols == NormCols(h)
        la == FirstMatch(cols, lat_candidates)
        lo == FirstMatch(cols, lon_candidates)
    IN  IF la = NoIdx \/ lo = NoIdx THEN <<1, 2>> ELSE <<la, lo>>

\* lines 89-113 for a non-empty header: <<lat_idx, lon_idx>>
ResolveIdx(h) ==
    LET cols == NormCols(h)
        la == FirstMatch(cols, lat_candidates)
        lo == FirstMatch(cols, lon_candidates)
        fb == IF la = NoIdx \/ lo = NoIdx
              THEN (IF Len(cols) >= 3 THEN <<1, 2>>
                    ELSE IF Len(cols) >= 2 THEN <<0, 1>>
                    ELSE <<la, lo>>)
              ELSE <<la, lo>>
    IN  IF fb[1] = NoIdx \/ fb[2] = NoIdx THEN <<1, 2>> ELSE fb

---------------------------------------------------------------------------
(* load_csv_points: one iteration of the for loop *)

Skip == [out |-> "skip", lat |-> PyNone, lon |-> PyNone]
Raise == [out |-> "raise", lat |-> PyNone, lon |-> PyNone]
Point(la, lo) == [out |-> "point", lat |-> la, lon |-> lo]

\* Repair that skips every too-short record
Repair_NoSplit(row, la, lo) ==
    IF Len(row) <= Max2(la, lo) THEN <<>> ELSE row

\* lines 119-125: the record as read after the optional repair, or <<>> to skip
Repair(row, la, lo) ==
    IF Len(row) <= Max2(la, lo)
    THEN (IF Len(row) = 2 /\ HasComma(row[2])
          THEN <<row[1], SplitFirstComma(row[2])[1], SplitFirstComma(row[2])[2]>>
          ELSE <<>>)
    ELSE row

\* lines 126-132 on the record as read
ReadPoint(row, la, lo) ==
    IF la >= Len(row) \/ lo >= Len(row) THEN Raise      \* IndexError
    ELSE LET lat == parse_float(Nth(row, la))
             lon == parse_float(Nth(row, lo))
         IN  IF lat.k = "none" \/ lon.k = "none" THEN Skip
             ELSE IF ValidCoord(lat, lon) THEN Point(lat, lon)
             ELSE Skip

\* lines 116-132
ProcessRow(row, la, lo) ==
    IF row = <<>> THEN Skip
    ELSE IF Repair(row, la, lo) = <<>> THEN Skip
    ELSE ReadPoint(Repair(row, la, lo), la, lo)

---------------------------------------------------------------------------
(* The field texts of the modelled files.  TextTable gives, for each text, *)
(* the number a reader of the file takes it to denote (NoValue: none);     *)
(* it is written down by hand, not computed by parse_float.                *)

NoValue == PyNone
T_48_85 == <<"4","8",".","8","5">>
T_2_35 == <<"2",".","3","5">>
T_37_4 == <<" ","3","7",".","4">>
T_m122_1 == <<"-","1","2","2",".","1"," ">>
T_90 == <<"9","0">>
T_m180_0 == <<"-","1","8","0",".","0">>
T_90_1 == <<"9","0",".","1">>
T_m180_5 == <<"-","1","8","0",".","5">>
T_120_5 == <<"+","1","2","0",".","5">>
T_1_0 == <<"1",".","0">>
T_2_0 == <<"2",".","0">>
T_nan == <<"N","a","N">>
T_inf == <<"i","n","f">>
T_4x == <<"4","x">>
T_empty == <<>>
T_ip == <<"1",".","2",".","3",".","4">>
T_paris == <<"P","a","r","i","s">>

TextTable == {
    [t |-> T_48_85, v |-> Num(4885, 2)],
    [t |-> T_2_35, v |-> Num(235, 2)],
    [t |-> T_37_4, v |-> Num(374, 1)],
    [t |-> T_m122_1, v |-> Num(-1221, 1)],
    [t |-> T_90, v |-> Num(90, 0)],
    [t |-> T_m180_0, v |-> Num(-180, 0)],
    [t |-> T_90_1, v |-> Num(901, 1)],
    [t |-> T_m180_5, v |-> Num(-1805, 1)],
    [t |-> T_120_5, v |-> Num(1205, 1)],
    [t |-> T_1_0, v |-> Num(1, 0)],
    [t |-> T_2_0, v |-> Num(2, 0)],
    [t |-> T_nan, v |-> NoValue],
    [t |-> T_inf, v |-> NoValue],
    [t |-> T_4x, v |-> NoValue],
    [t |-> T_empty, v |-> NoValue],
    [t |-> T_ip, v |-> NoValue],
    [t |-> T_paris, v |-> NoValue] }

KnownTexts == {e.t : e \in TextTable}

TruthOf(t) ==
    IF t \in KnownTexts THEN (CHOOSE e \in TextTable : e.t = t).v ELSE NoValue

Join(a, b) == a \o <<",">> \o b

(* Data records: lists of fields as csv.reader yields them *)
R_std == <<T_ip, T_48_85, T_2_35>>
R_ws == <<T_ip, T_37_4, T_m122_1>>
R_edge == <<T_ip, T_90, T_m180_0>>
R_latout == <<T_ip, T_90_1, T_2_35>>
R_lonout == <<T_ip, T_48_85, T_m180_5>>
R_nan == <<T_ip, T_nan, T_2_35>>
R_inf == <<T_ip, T_48_85, T_inf>>
R_garbage == <<T_ip, T_4x, T_2_35>>
R_nolat == <<T_ip, T_empty, T_2_35>>
R_repair == <<T_ip, Join(T_48_85, T_2_35)>>
R_repair_out == <<T_ip, Join(T_90_1, T_2_35)>>
R_repair_extra == <<T_ip, Join(T_48_85, Join(T_2_35, T_90))>>
R_short == <<T_ip, T_48_85>>
R_pair == <<T_1_0, T_2_0>>
R_pair_wide == <<T_120_5, T_37_4>>
R_blank == <<>>
R_one == <<T_ip>>
R_five == <<T_ip, T_paris, T_paris, T_48_85, T_2_35>>

RowSet == {R_std, R_ws, R_edge, R_latout, R_lonout,
           R_nan, R_inf, R_garbage, R_nolat, R_repair,
           R_repair_out, R_repair_extra, R_short, R_pair, R_pair_wide,
           R_blank, R_one, R_five}

(* Header records *)
H_std == <<<<"i","p">>, <<"l","a","t","i","t","u","d","e">>, <<"l","o","n","g","i","t","u","d","e">>>>
H_xy == <<<<"x">>, <<"y">>>>
H_ab == <<<<"a">>, <<"b">>>>
H_case == <<<<" ","I","P"," ">>, <<" ","L","a","t">>, <<"L","N","G"," ">>>>
H_swapped == <<<<"i","p">>, <<"l","o","n","g","i","t","u","d","e">>, <<"l","a","t","i","t","u","d","e">>>>
H_wide == <<<<"i","p">>, <<"c","i","t","y">>, <<"r","e","g","i","o","n">>, <<"l","a","t">>, <<"l","o","n">>>>
H_latname == <<<<"l","a","t">>, <<"n","a","m","e">>>>
H_one == <<<<"n","a","m","e">>>>
H_latfirst == <<<<"l","a","t">>, <<"i","p">>, <<"l","o","n">>>>
H_none == <<>>

HeaderSet == {H_std, H_xy, H_ab, H_case, H_swapped,
              H_wide, H_latname, H_one, H_latfirst, H_none}

---------------------------------------------------------------------------
(* States of the functions that are not running *)

IdleLoader ==
    /\ header = <<>> /\ rows = <<>> /\ l_pc = "idle"
    /\ lat_idx = NoIdx /\ lon_idx = NoIdx /\ row_i = 0 /\ points = <<>>

IdlePalette == p_pc = "idle" /\ p_n = 0 /\ p_i = 0 /\ colors = <<>>

IdleBounds ==
    /\ b_pc = "idle" /\ points_by_file = <<>> /\ b_i = 0
    /\ lats = <<>> /\ lons = <<>> /\ bounds = <<>>

IdleMain ==
    /\ m_pc = "idle" /\ csv_files = <<>> /\ m_i = 0 /\ kept = <<>>
    /\ colors_by_file = <<>> /\ ok = FALSE /\ exit_code = NoIdx

IdleSnapshot ==
    /\ s_pc = "idle" /\ env = {} /\ attempts = <<>> /\ written = <<>>
    /\ pending = "none" /\ created = {} /\ quit_called = {} /\ ret = "none"

---------------------------------------------------------------------------
(* load_csv_points as a process: one step per record read *)

InitLoader ==
    /\ header = <<>> /\ rows = <<>>
    /\ l_pc = "open"
    /\ lat_idx = NoIdx /\ lon_idx = NoIdx /\ row_i = 0 /\ points = <<>>
    /\ IdlePalette /\ IdleBounds /\ IdleMain /\ IdleSnapshot

\* lines 84-113: read the header record h and resolve the two columns
LoaderOpen ==
    /\ l_pc = "open"
    /\ \E h \in HeaderSet :
        /\ header' = h
        /\ IF h = <<>>
           THEN /\ l_pc' = "returned"
                /\ UNCHANGED <<lat_idx, lon_idx>>
           ELSE /\ l_pc' = "rows"
                /\ lat_idx' = ResolveIdx(h)[1]
                /\ lon_idx' = ResolveIdx(h)[2]
    /\ UNCHANGED <<rows, row_i, points>>
    /\ UNCHANGED <<paletteVars, boundsVars, mainVars, snapshotVars>>

\* lines 115-132: one iteration of the for loop, on the next record row
LoaderRow ==
    /\ l_pc = "rows"
    /\ row_i < MaxRows
    /\ \E row \in RowSet :
        /\ rows' = Append(rows, row)
        /\ LET r == ProcessRow(row, lat_idx, lon_idx)
           IN  /\ l_pc' = IF r.out = "raise" THEN "raised" ELSE "rows"
               /\ points' = IF r.out = "point"
                            THEN Append(points, <<r.lat, r.lon>>)
                            ELSE points
    /\ row_i' = row_i + 1
    /\ UNCHANGED <<header, lat_idx, lon_idx>>
    /\ UNCHANGED <<paletteVars, boundsVars, mainVars, snapshotVars>>

\* line 134: the reader is exhausted
LoaderReturn ==
    /\ l_pc = "rows"
    /\ l_pc' = "returned"
    /\ UNCHANGED <<header, rows, lat_idx, lon_idx, row_i, points>>
    /\ UNCHANGED <<paletteVars, boundsVars, mainVars, snapshotVars>>

NextLoader == LoaderOpen \/ LoaderRow \/ LoaderReturn

SpecLoader == InitLoader /\ [][NextLoader]_vars

\* load_csv_points as one call: [raised, points]
RECURSIVE LoadRows(_, _, _, _)
LoadRows(rs, la, lo, acc) ==
    IF rs = <<>> THEN [raised |-> FALSE, points |-> acc]
    ELSE LET r == ProcessRow(Head(rs), la, lo)
         IN  IF r.out = "raise" THEN [raised |-> TRUE, points |-> <<>>]
             ELSE IF r.out = "point"
             THEN LoadRows(Tail(rs), la, lo, Append(acc, <<r.lat, r.lon>>))
             ELSE LoadRows(Tail(rs), la, lo, acc)

load_csv_points(h, rs) ==
    IF h = <<>> THEN [raised |-> FALSE, points |-> <<>>]
    ELSE LoadRows(rs, ResolveIdx(h)[1], ResolveIdx(h)[2], <<>>)

---------------------------------------------------------------------------
(* What the loader is expected to produce, stated from TextTable *)

\* the value in hundredths (every number of TextTable has at most 2 fraction digits)
Hundredths(v) == v.m * Pow10(2 - v.d)

TruthInBox(la, lo) ==
    /\ la.k = "num" /\ lo.k = "num"
    /\ Hundredths(la) >= -9000 /\ Hundredths(la) <= 9000
    /\ Hundredths(lo) >= -18000 /\ Hundredths(lo) <= 18000

\* the comma-free pieces of a text, in order
RECURSIVE PiecesOf(_, _)
PiecesOf(f, acc) ==
    IF f = <<>> THEN <<acc>>
    ELSE IF Head(f) = "," THEN <<acc>> \o PiecesOf(Tail(f), <<>>)
    ELSE PiecesOf(Tail(f), Append(acc, Head(f)))

\* the comma-free pieces of the fields of a record
Pieces(row) == UNION {Range(PiecesOf(row[k], <<>>)) : k \in 1..Len(row)}

IsLatText(t) ==
    /\ TruthOf(t).k = "num"
    /\ Hundredths(TruthOf(t)) \in -9000..9000

IsLonText(t) ==
    /\ TruthOf(t).k = "num"
    /\ Hundredths(TruthOf(t)) \in -18000..18000

\* some piece denotes a latitude and some piece a longitude
CanYield(row) ==
    LET ps == Pieces(row)
    IN  (\E a \in ps : IsLatText(a)) /\ (\E b \in ps : IsLonText(b))

\* a 2-field record "id","<lat>,<rest>": the text before / after the first comma
BeforeComma(f) ==
    CHOOSE a \in KnownTexts :
        /\ Len(a) < Len(f) /\ SubSeq(f, 1, Len(a)) = a /\ f[Len(a) + 1] = ","
        /\ \A k \in 1..Len(a) : a[k] # ","
AfterComma(f) == SubSeq(f, Len(BeforeComma(f)) + 2, Len(f))

IsLocPair(row) ==
    /\ Len(row) = 2
    /\ \E k \in 1..Len(row[2]) : row[2][k] = ","

\* (latitude, longitude) of a record of an identifier,latitude,longitude file
StdTruth(row) ==
    IF Len(row) >= 3 THEN <<TruthOf(row[2]), TruthOf(row[3])>>
    ELSE IF IsLocPair(row)
    THEN <<TruthOf(BeforeComma(row[2])), TruthOf(AfterComma(row[2]))>>
    ELSE <<NoValue, NoValue>>

\* (latitude, longitude) of a record of a latitude,longitude file
PairTruth(row) ==
    IF Len(row) >= 2 THEN <<TruthOf(row[1]), TruthOf(row[2])>>
    ELSE <<NoValue, NoValue>>

\* (latitude, longitude) of a record of a longitude,latitude file
SwappedPairTruth(row) ==
    IF Len(row) >= 2 THEN <<TruthOf(row[2]), TruthOf(row[1])>>
    ELSE <<NoValue, NoValue>>

RECURSIVE ExpectedStd(_)
ExpectedStd(rs) ==
    IF rs = <<>> THEN <<>>
    ELSE LET t == StdTruth(rs[Len(rs)])
             init == ExpectedStd(SubSeq(rs, 1, Len(rs) - 1))
         IN  IF TruthInBox(t[1], t[2]) THEN Append(init, t) ELSE init

RECURSIVE ExpectedPair(_)
ExpectedPair(rs) ==
    IF rs = <<>> THEN <<>>
    ELSE LET t == PairTruth(rs[Len(rs)])
             init == ExpectedPair(SubSeq(rs, 1, Len(rs) - 1))
         IN  IF TruthInBox(t[1], t[2]) THEN Append(init, t) ELSE init

RECURSIVE ExpectedSwappedPair(_)
ExpectedSwappedPair(rs) ==
    IF rs = <<>> THEN <<>>
    ELSE LET t == SwappedPairTruth(rs[Len(rs)])
             init == ExpectedSwappedPair(SubSeq(rs, 1, Len(rs) - 1))
         IN  IF TruthInBox(t[1], t[2]) THEN Append(init, t) ELSE init

LoaderStarted == l_pc \in {"rows", "returned", "raised"}

---------------------------------------------------------------------------
(* Properties of load_csv_points, under SpecLoader *)

\* C1: load_csv_points never raises: whatever the header record and the data
\* records are, the call ends by returning a list and never by an exception.
C1_NeverRaises == l_pc # "raised"

\* C2: every point of the list has its latitude in [-90, 90] and its
\* longitude in [-180, 180], and only a record holding a text that denotes
\* such a latitude and a text that denotes such a longitude contributes a
\* point: the list is never longer than the number of such records read.
C2_PointsInRange ==
    LoaderStarted =>
        /\ \A i \in 1..Len(points) :
            /\ points[i][1].k = "num" /\ points[i][2].k = "num"
            /\ points[i][1].m <= LatMax * Pow10(points[i][1].d)
            /\ points[i][1].m >= (0 - LatMax) * Pow10(points[i][1].d)
            /\ points[i][2].m <= LonMax * Pow10(points[i][2].d)
            /\ points[i][2].m >= (0 - LonMax) * Pow10(points[i][2].d)
        /\ Len(points) <= Cardinality({i \in 1..Len(rows) : CanYield(rows[i])})

\* a list with one point has been returned after a record whose longitude
\* is -180.5 was read and dropped
C2_Witness ==
    /\ l_pc = "returned"
    /\ rows = <<R_lonout, R_ws>>
    /\ Len(points) = 1

\* C3 as stated: with a 2-column header that named matching does not resolve,
\* column 0 is the latitude and column 1 the longitude, and header x,y with
\* the record 1.0,2.0 yields the point (1.0, 2.0).
C3_Original ==
    /\ (LoaderStarted /\ Len(header) = 2
          /\ (FirstMatch(NormCols(header), lat_candidates) = NoIdx
              \/ FirstMatch(NormCols(header), lon_candidates) = NoIdx))
        => (lat_idx = 0 /\ lon_idx = 1)
    /\ (l_pc = "returned" /\ header = H_xy /\ rows = <<R_pair>>)
        => points = << <<Num(1, 0), Num(2, 0)>> >>

\* C3 as amended: with a 2-column header that named matching does not resolve
\* on both axes, column 0 is read as the latitude and column 1 as the
\* longitude (header a,b with the record 1.0,2.0 yields (1.0, 2.0)); header
\* x,y is resolved by name, x the longitude and y the latitude, so the record
\* 1.0,2.0 yields (2.0, 1.0).
C3_Amended ==
    /\ (LoaderStarted /\ header \in {H_ab, H_latname})
        => (lat_idx = 0 /\ lon_idx = 1 /\ l_pc # "raised"
            /\ points = ExpectedPair(rows))
    /\ (l_pc = "returned" /\ header = H_ab /\ rows = <<R_pair>>)
        => points = << <<Num(1, 0), Num(2, 0)>> >>
    /\ (LoaderStarted /\ header = H_xy)
        => (lat_idx = 1 /\ lon_idx = 0 /\ l_pc # "raised"
            /\ points = ExpectedSwappedPair(rows))
    /\ (l_pc = "returned" /\ header = H_xy /\ rows = <<R_pair>>)
        => points = << <<Num(2, 0), Num(1, 0)>> >>

\* header a,b and the record 1.0,2.0 have been loaded and gave one point
C3_Witness ==
    /\ l_pc = "returned"
    /\ header = H_ab
    /\ rows = <<R_pair>>
    /\ Len(points) = 1

\* C4: a record with fewer fields than the resolved columns require is
\* repaired when it has exactly 2 fields and a comma in field 1: it is then
\* read as (identifier, latitude, longitude) with field 1 split at its first
\* comma, and contributes that point when it is valid; every other too-short
\* record contributes nothing.  The loader goes on in both cases.
C4_RepairRule ==
    [][(l_pc = "rows" /\ row_i' = row_i + 1
          /\ Len(rows'[row_i']) <= Max2(lat_idx, lon_idx))
        => /\ l_pc' = "rows"
           /\ points' =
                IF IsLocPair(rows'[row_i'])
                     /\ TruthInBox(StdTruth(rows'[row_i'])[1], StdTruth(rows'[row_i'])[2])
                THEN Append(points, StdTruth(rows'[row_i']))
                ELSE points]_vars

\* C5: under header ip,latitude,longitude the list is exactly the sequence of
\* the (latitude, longitude) values of the records whose values are in range,
\* in file order and unchanged; it is never longer than the number of
\* records, it is empty for a header-only file, and the call does not raise.
C5_RoundTrip ==
    (LoaderStarted /\ header = H_std) =>
        /\ l_pc # "raised"
        /\ points = ExpectedStd(rows)
        /\ Len(points) <= Len(rows)
        /\ (rows = <<>> => points = <<>>)

\* two valid records were loaded and came back in file order
C5_Witness ==
    /\ l_pc = "returned"
    /\ header = H_std
    /\ rows = <<R_ws, R_edge>>
    /\ points = << <<Num(374, 1), Num(-1221, 1)>>, <<Num(90, 0), Num(-180, 0)>> >>

---------------------------------------------------------------------------
(* generate_palette, hls_to_rgb, rgb_to_hex.                               *)
(* A hue is the fraction <<numerator, denominator>>; lightness and         *)
(* saturation are given in tenths; m1, m2 and the channels of colorsys are *)
(* exact fractions.  For n below 16 no channel times 255 is an integer, so *)
(* int() truncates the exact value and the floating-point value alike.     *)

Lightness10 == 5
Saturation10 == 8
ChannelMax == 255

\* colorsys._v(m1, m2, hue), m1 and m2 in hundredths: the fraction <<num, den>>
ColorsysV(m1, m2, hue) ==
    LET hn == hue[1] % hue[2]
        hd == hue[2]
    IN  IF 6 * hn < hd THEN <<m1 * hd + (m2 - m1) * hn * 6, 100 * hd>>
        ELSE IF 2 * hn < hd THEN <<m2, 100>>
        ELSE IF 3 * hn < 2 * hd
        THEN <<m1 * 3 * hd + (m2 - m1) * (2 * hd - 3 * hn) * 6, 300 * hd>>
        ELSE <<m1, 100>>

\* int(r * 255) for the fraction r >= 0
ToChannel(r) == (r[1] * ChannelMax) \div r[2]

\* hls_to_rgb(h, l, s): <<r, g, b>>
hls_to_rgb(h, l10, s10) ==
    LET m2 == IF l10 <= 5 THEN l10 * (10 + s10)
              ELSE 10 * l10 + 10 * s10 - l10 * s10
        m1 == 20 * l10 - m2
    IN  IF s10 = 0
        THEN <<ToChannel(<<l10, 10>>), ToChannel(<<l10, 10>>), ToChannel(<<l10, 10>>)>>
        ELSE <<ToChannel(ColorsysV(m1, m2, <<3 * h[1] + h[2], 3 * h[2]>>)),
               ToChannel(ColorsysV(m1, m2, <<3 * h[1], 3 * h[2]>>)),
               ToChannel(ColorsysV(m1, m2, <<3 * h[1] - h[2], 3 * h[2]>>))>>

HexDigits == <<"0","1","2","3","4","5","6","7","8","9","a","b","c","d","e","f">>

\* format(v, "x") for v >= 0
RECURSIVE HexOf(_)
HexOf(v) ==
    IF v < 16 THEN <<HexDigits[v + 1]>>
    ELSE Append(HexOf(v \div 16), HexDigits[(v % 16) + 1])

\* format(v, "02x"): at least two digits, padded with "0"
Hex02(v) == IF Len(HexOf(v)) < 2 THEN <<"0">> \o HexOf(v) ELSE HexOf(v)

\* rgb_to_hex without the leading "#"
rgb_to_hex_NoHash(r, g, b) == Hex02(r) \o Hex02(g) \o Hex02(b)

\* rgb_to_hex
rgb_to_hex(r, g, b) == <<"#">> \o Hex02(r) \o Hex02(g) \o Hex02(b)

\* PaletteColor with the hue computed by integer division (i // n)
PaletteColor_IntDiv(i, n) ==
    LET h == <<(i \div Max2(1, n)) % 1, 1>>
        c == hls_to_rgb(h, Lightness10, Saturation10)
    IN  rgb_to_hex(c[1], c[2], c[3])

\* the body of the for loop of generate_palette, for index i
PaletteColor(i, n) ==
    LET h == <<i % Max2(1, n), Max2(1, n)>>
        c == hls_to_rgb(h, Lightness10, Saturation10)
    IN  rgb_to_hex(c[1], c[2], c[3])

\* generate_palette(n) as one call
generate_palette(n) ==
    IF n <= 0 THEN <<>> ELSE [k \in 1..n |-> PaletteColor(k - 1, n)]

\* main, line 411: zip(points_by_file.keys(), colors)
ZipColors(names, cols) ==
    [k \in 1..(IF Len(names) <= Len(cols) THEN Len(names) ELSE Len(cols)) |->
        [name |-> names[k], color |-> cols[k]]]

InitPalette ==
    /\ p_pc = "call" /\ p_n = 0 /\ p_i = 0 /\ colors = <<>>
    /\ IdleLoader /\ IdleBounds /\ IdleMain /\ IdleSnapshot

\* lines 141-144: the call with argument n
PaletteCall ==
    /\ p_pc = "call"
    /\ \E n \in -1..MaxN :
        /\ p_n' = n
        /\ p_pc' = IF n <= 0 THEN "done" ELSE "loop"
    /\ UNCHANGED <<p_i, colors>>
    /\ UNCHANGED <<loaderVars, boundsVars, mainVars, snapshotVars>>

\* lines 145-150: one iteration of the for loop
PaletteLoop ==
    /\ p_pc = "loop"
    /\ p_i < p_n
    /\ colors' = Append(colors, PaletteColor(p_i, p_n))
    /\ p_i' = p_i + 1
    /\ UNCHANGED <<p_pc, p_n>>
    /\ UNCHANGED <<loaderVars, boundsVars, mainVars, snapshotVars>>

\* line 151
PaletteReturn ==
    /\ p_pc = "loop"
    /\ p_i = p_n
    /\ p_pc' = "done"
    /\ UNCHANGED <<p_n, p_i, colors>>
    /\ UNCHANGED <<loaderVars, boundsVars, mainVars, snapshotVars>>

\* main, lines 410-411, for p_n retained files named 1..p_n
PaletteAssign ==
    /\ p_pc = "done"
    /\ p_pc' = "assigned"
    /\ colors_by_file' = ZipColors([k \in 1..Max2(0, p_n) |-> k], colors)
    /\ UNCHANGED <<p_n, p_i, colors>>
    /\ UNCHANGED <<m_pc, csv_files, m_i, kept, ok, exit_code>>
    /\ UNCHANGED <<loaderVars, boundsVars, snapshotVars>>

NextPalette == PaletteCall \/ PaletteLoop \/ PaletteReturn \/ PaletteAssign

SpecPalette == InitPalette /\ [][NextPalette]_vars

---------------------------------------------------------------------------
(* Properties of generate_palette, under SpecPalette *)

IsHexColor(c) ==
    /\ Len(c) = 7
    /\ c[1] = "#"
    /\ \A k \in 2..7 : \E x \in 1..16 : HexDigits[x] = c[k]

\* the value of two hexadecimal digits
HexPairValue(a, b) ==
    16 * ((CHOOSE x \in 1..16 : HexDigits[x] = a) - 1)
       + ((CHOOSE x \in 1..16 : HexDigits[x] = b) - 1)

\* C6: generate_palette(n) returns exactly n colours for n >= 0 (none for
\* n = 0) and each colour is "#" followed by 6 lowercase hexadecimal digits,
\* two per channel, each channel in 0..255.
C6_PaletteShape ==
    /\ (p_pc \in {"done", "assigned"} /\ p_n >= 0) => Len(colors) = p_n
    /\ p_pc \in {"loop", "done", "assigned"} =>
        \A k \in 1..Len(colors) :
            /\ IsHexColor(colors[k])
            /\ HexPairValue(colors[k][2], colors[k][3]) \in 0..255
            /\ HexPairValue(colors[k][4], colors[k][5]) \in 0..255
            /\ HexPairValue(colors[k][6], colors[k][7]) \in 0..255

\* generate_palette(3) has returned red, green, blue at saturation 0.8
C6_Witness ==
    /\ p_pc = "done"
    /\ p_n = 3
    /\ colors = << <<"#","e","5","1","9","1","9">>,
                   <<"#","1","9","e","5","1","9">>,
                   <<"#","1","9","1","9","e","5">> >>

\* C7: for 1 <= n <= 12 the n colours of generate_palette(n) are pairwise
\* different, and main assigns different colours to different files.
C7_Distinct ==
    /\ (p_pc \in {"loop", "done", "assigned"} /\ p_n \in 1..12) =>
        \A a \in 1..Len(colors) : \A b \in 1..Len(colors) :
            a # b => colors[a] # colors[b]
    /\ (p_pc = "assigned" /\ p_n \in 1..12) =>
        /\ Len(colors_by_file) = p_n
        /\ \A a \in 1..Len(colors_by_file) : \A b \in 1..Len(colors_by_file) :
            colors_by_file[a].name # colors_by_file[b].name
                => colors_by_file[a].color # colors_by_file[b].color

\* twelve files have been given their colours
C7_Witness ==
    /\ p_pc = "assigned"
    /\ p_n = 12
    /\ Len(colors_by_file) = 12
    /\ colors_by_file[2].color = <<"#","e","5","7","f","1","9">>

---------------------------------------------------------------------------
(* fit_bounds_from_points.  The dict is the sequence of its values; a      *)
(* point is <<lat, lon>> with integer coordinates.                         *)

\* the "no bounds" result None
NoBounds == <<>>

\* min(xs) and max(xs) of a non-empty list, as Python folds them
RECURSIVE SeqMin(_)
SeqMin(xs) ==
    IF Len(xs) = 1 THEN xs[1]
    ELSE LET r == SeqMin(SubSeq(xs, 1, Len(xs) - 1))
         IN  IF xs[Len(xs)] < r THEN xs[Len(xs)] ELSE r

RECURSIVE SeqMax(_)
SeqMax(xs) ==
    IF Len(xs) = 1 THEN xs[1]
    ELSE LET r == SeqMax(SubSeq(xs, 1, Len(xs) - 1))
         IN  IF xs[Len(xs)] > r THEN xs[Len(xs)] ELSE r

\* BoundsResult that takes both coordinates of a corner from lats
BoundsResult_LatsTwice(la, lo) ==
    IF la = <<>> \/ lo = <<>> THEN NoBounds
    ELSE << <<SeqMin(la), SeqMin(la)>>, <<SeqMax(la), SeqMax(la)>> >>

\* lines 175-177
BoundsResult(la, lo) ==
    IF la = <<>> \/ lo = <<>> THEN NoBounds
    ELSE << <<SeqMin(la), SeqMin(lo)>>, <<SeqMax(la), SeqMax(lo)>> >>

\* the points a trajectory may hold
PointSet == { <<10, 10>>, <<20, 20>>, <<-5, 30>> }

TrajectorySet == SeqsUpTo(PointSet, MaxPts)

InitBounds ==
    /\ b_pc = "call" /\ points_by_file = <<>> /\ b_i = 0
    /\ lats = <<>> /\ lons = <<>> /\ bounds = <<>>
    /\ IdleLoader /\ IdlePalette /\ IdleMain /\ IdleSnapshot

\* lines 166-170: the call with its argument
BoundsCall ==
    /\ b_pc = "call"
    /\ \E pbf \in SeqsUpTo(TrajectorySet, MaxTraj) : points_by_file' = pbf
    /\ b_pc' = "loop"
    /\ UNCHANGED <<b_i, lats, lons, bounds>>
    /\ UNCHANGED <<loaderVars, paletteVars, mainVars, snapshotVars>>

\* lines 171-174: one iteration of the outer for loop (all points of one file)
BoundsCollect ==
    /\ b_pc = "loop"
    /\ b_i < Len(points_by_file)
    /\ LET pts == points_by_file[b_i + 1]
       IN  /\ lats' = lats \o [k \in 1..Len(pts) |-> pts[k][1]]
           /\ lons' = lons \o [k \in 1..Len(pts) |-> pts[k][2]]
    /\ b_i' = b_i + 1
    /\ UNCHANGED <<b_pc, points_by_file, bounds>>
    /\ UNCHANGED <<loaderVars, paletteVars, mainVars, snapshotVars>>

\* lines 175-177
BoundsReturn ==
    /\ b_pc = "loop"
    /\ b_i = Len(points_by_file)
    /\ bounds' = BoundsResult(lats, lons)
    /\ b_pc' = "done"
    /\ UNCHANGED <<points_by_file, b_i, lats, lons>>
    /\ UNCHANGED <<loaderVars, paletteVars, mainVars, snapshotVars>>

NextBounds == BoundsCall \/ BoundsCollect \/ BoundsReturn

SpecBounds == InitBounds /\ [][NextBounds]_vars

---------------------------------------------------------------------------
(* Property of fit_bounds_from_points, under SpecBounds *)

AllPoints(pbf) == UNION {Range(pbf[k]) : k \in 1..Len(pbf)}

\* C8: the result is None exactly when the mapping is empty or all its
\* trajectories are empty; otherwise it is [(min lat, min lon), (max lat,
\* max lon)]: every point lies inside the box and each of the four edges is
\* attained by some point; {a: [(10,10),(20,20)], b: [(-5,30)]} gives
\* ((-5,10),(20,30)).
C8_Bounds ==
    b_pc = "done" =>
        /\ (bounds = NoBounds) <=> (AllPoints(points_by_file) = {})
        /\ bounds # NoBounds =>
            /\ Len(bounds) = 2
            /\ \A q \in AllPoints(points_by_file) :
                /\ bounds[1][1] <= q[1] /\ q[1] <= bounds[2][1]
                /\ bounds[1][2] <= q[2] /\ q[2] <= bounds[2][2]
            /\ \E q \in AllPoints(points_by_file) : q[1] = bounds[1][1]
            /\ \E q \in AllPoints(points_by_file) : q[2] = bounds[1][2]
            /\ \E q \in AllPoints(points_by_file) : q[1] = bounds[2][1]
            /\ \E q \in AllPoints(points_by_file) : q[2] = bounds[2][2]
        /\ points_by_file = << << <<10, 10>>, <<20, 20>> >>, << <<-5, 30>> >> >>
            => bounds = << <<-5, 10>>, <<20, 30>> >>

\* the example mapping has been aggregated
C8_Witness ==
    /\ b_pc = "done"
    /\ points_by_file = << << <<10, 10>>, <<20, 20>> >>, << <<-5, 30>> >> >>
    /\ bounds = << <<-5, 10>>, <<20, 30>> >>

---------------------------------------------------------------------------
(* main.  A file is [header, rows, valid]: valid is the number of records  *)
(* of the file that hold a valid coordinate pair, written down by hand.    *)
(* A file is named by its position in the sorted list csv_files.           *)

F_good == [header |-> H_std, rows |-> <<R_std, R_ws>>, valid |-> 2]
F_loc == [header |-> H_case, rows |-> <<R_repair>>, valid |-> 1]
F_header_only == [header |-> H_std, rows |-> <<>>, valid |-> 0]
F_all_bad == [header |-> H_std, rows |-> <<R_latout, R_nan>>, valid |-> 0]
F_empty == [header |-> H_none, rows |-> <<>>, valid |-> 0]
F_wide == [header |-> H_wide, rows |-> <<R_five, R_repair>>, valid |-> 2]

FileSet == {F_good, F_loc, F_header_only, F_all_bad, F_empty, F_wide}

\* exit_code before main has returned
NoExit == -1

InitMain ==
    /\ m_pc = "start" /\ csv_files = <<>> /\ m_i = 0 /\ kept = <<>>
    /\ colors_by_file = <<>> /\ ok = FALSE /\ exit_code = NoExit
    /\ IdleLoader /\ IdlePalette /\ IdleBounds /\ IdleSnapshot

\* lines 386-394: list the directory; exit 1 when it holds no CSV file
MainFind ==
    /\ m_pc = "start"
    /\ \E fs \in SeqsUpTo(FileSet, MaxFiles) :
        /\ csv_files' = fs
        /\ IF fs = <<>>
           THEN m_pc' = "exit" /\ exit_code' = 1
           ELSE m_pc' = "loading" /\ exit_code' = exit_code
    /\ UNCHANGED <<m_i, kept, colors_by_file, ok>>
    /\ UNCHANGED <<loaderVars, paletteVars, boundsVars, snapshotVars>>

\* lines 395-403: one iteration of the for loop over csv_files
MainLoad ==
    /\ m_pc = "loading"
    /\ m_i < Len(csv_files)
    /\ LET f == csv_files[m_i + 1]
           r == load_csv_points(f.header, f.rows)
       IN  IF r.raised
           THEN m_pc' = "raised" /\ kept' = kept
           ELSE /\ m_pc' = "loading"
                /\ kept' = IF r.points = <<>> THEN kept
                           ELSE Append(kept, [name |-> m_i + 1, pts |-> r.points])
    /\ m_i' = m_i + 1
    /\ UNCHANGED <<csv_files, colors_by_file, ok, exit_code>>
    /\ UNCHANGED <<loaderVars, paletteVars, boundsVars, snapshotVars>>

\* lines 405-419: exit 1 without points; else colours, map and HTML file
MainColors ==
    /\ m_pc = "loading"
    /\ m_i = Len(csv_files)
    /\ IF kept = <<>>
       THEN /\ m_pc' = "exit" /\ exit_code' = 1
            /\ UNCHANGED colors_by_file
       ELSE /\ m_pc' = "mapped" /\ exit_code' = exit_code
            /\ colors_by_file' =
                 ZipColors([k \in 1..Len(kept) |-> kept[k].name],
                           generate_palette(Len(kept)))
    /\ UNCHANGED <<csv_files, m_i, kept, ok>>
    /\ UNCHANGED <<loaderVars, paletteVars, boundsVars, snapshotVars>>

\* lines 421-436: the snapshot returns True or False; main returns 0
MainSnapshot ==
    /\ m_pc = "mapped"
    /\ \E res \in BOOLEAN : ok' = res
    /\ m_pc' = "exit"
    /\ exit_code' = 0
    /\ UNCHANGED <<csv_files, m_i, kept, colors_by_file>>
    /\ UNCHANGED <<loaderVars, paletteVars, boundsVars, snapshotVars>>

NextMain == MainFind \/ MainLoad \/ MainColors \/ MainSnapshot

SpecMain == InitMain /\ [][NextMain]_vars

---------------------------------------------------------------------------
(* Property of main, under SpecMain *)

\* the positions of the files that hold at least one valid coordinate pair
ValidFiles == {k \in 1..Len(csv_files) : csv_files[k].valid > 0}

\* C9: main returns 1 exactly when no file yields a valid point (also when
\* there is no file) and 0 otherwise; a file without valid point gets no
\* trajectory and no colour while the other files are processed, and the
\* palette has one colour per retained file; the result of the PNG export
\* does not change the exit code.
C9_ExitCode ==
    /\ m_pc # "raised"
    /\ m_pc = "exit" =>
        /\ exit_code \in {0, 1}
        /\ (exit_code = 1) <=> (ValidFiles = {})
    /\ m_pc \in {"mapped", "exit"} =>
        /\ {kept[k].name : k \in 1..Len(kept)} = ValidFiles
        /\ (ValidFiles # {} =>
              /\ Len(colors_by_file) = Cardinality(ValidFiles)
              /\ {colors_by_file[k].name : k \in 1..Len(colors_by_file)} = ValidFiles)

---------------------------------------------------------------------------
(* snapshot_html_to_png.  env is the set of steps of the external tools    *)
(* that raise in this call.                                                *)

Steps == {"selenium_import",
          "chrome_create", "chrome_get", "chrome_shot", "chrome_quit",
          "firefox_create", "firefox_get", "firefox_shot", "firefox_quit",
          "imgkit"}

InitSnapshot ==
    /\ s_pc = "start" /\ env = {} /\ attempts = <<>> /\ written = <<>>
    /\ pending = "none" /\ created = {} /\ quit_called = {} /\ ret = "none"
    /\ IdleLoader /\ IdlePalette /\ IdleBounds /\ IdleMain

\* lines 222-227: the call, in an environment env; import selenium
SnapImport ==
    /\ s_pc = "start"
    /\ \E e \in SUBSET Steps :
        /\ env' = e
        /\ s_pc' = IF "selenium_import" \in e THEN "imgkit" ELSE "chrome_create"
    /\ UNCHANGED <<attempts, written, pending, created, quit_called, ret>>
    /\ UNCHANGED <<loaderVars, paletteVars, boundsVars, mainVars>>

\* lines 230-238: options and webdriver.Chrome(...)
SnapChromeCreate ==
    /\ s_pc = "chrome_create"
    /\ attempts' = Append(attempts, "chrome")
    /\ IF "chrome_create" \in env
       THEN s_pc' = "firefox_create" /\ created' = created
       ELSE s_pc' = "chrome_try" /\ created' = created \cup {"chrome"}
    /\ UNCHANGED <<env, written, pending, quit_called, ret>>
    /\ UNCHANGED <<loaderVars, paletteVars, boundsVars, mainVars>>

\* lines 239-243: get, sleep, save_screenshot, return True
SnapChromeTry ==
    /\ s_pc = "chrome_try"
    /\ IF "chrome_get" \in env \/ "chrome_shot" \in env
       THEN pending' = "exc" /\ written' = written
       ELSE pending' = "return" /\ written' = Append(written, "chrome")
    /\ s_pc' = "chrome_finally"
    /\ UNCHANGED <<env, attempts, created, quit_called, ret>>
    /\ UNCHANGED <<loaderVars, paletteVars, boundsVars, mainVars>>

\* lines 244-246: finally driver.quit(); an exception reaches except Exception
SnapChromeQuit ==
    /\ s_pc = "chrome_finally"
    /\ quit_called' = quit_called \cup {"chrome"}
    /\ IF "chrome_quit" \notin env /\ pending = "return"
       THEN s_pc' = "done" /\ ret' = "True"
       ELSE s_pc' = "firefox_create" /\ ret' = ret
    /\ pending' = "none"
    /\ UNCHANGED <<env, attempts, written, created>>
    /\ UNCHANGED <<loaderVars, paletteVars, boundsVars, mainVars>>

\* lines 248-253: options and webdriver.Firefox(...)
SnapFirefoxCreate ==
    /\ s_pc = "firefox_create"
    /\ attempts' = Append(attempts, "firefox")
    /\ IF "firefox_create" \in env
       THEN s_pc' = "imgkit" /\ created' = created
       ELSE s_pc' = "firefox_try" /\ created' = created \cup {"firefox"}
    /\ UNCHANGED <<env, written, pending, quit_called, ret>>
    /\ UNCHANGED <<loaderVars, paletteVars, boundsVars, mainVars>>

\* lines 254-259: set_window_size, get, sleep, save_screenshot, return True
SnapFirefoxTry ==
    /\ s_pc = "firefox_try"
    /\ IF "firefox_get" \in env \/ "firefox_shot" \in env
       THEN pending' = "exc" /\ written' = written
       ELSE pending' = "return" /\ written' = Append(written, "firefox")
    /\ s_pc' = "firefox_finally"
    /\ UNCHANGED <<env, attempts, created, quit_called, ret>>
    /\ UNCHANGED <<loaderVars, paletteVars, boundsVars, mainVars>>

\* lines 260-265: finally driver.quit(); an exception is passed over
SnapFirefoxQuit ==
    /\ s_pc = "firefox_finally"
    /\ quit_called' = quit_called \cup {"firefox"}
    /\ IF "firefox_quit" \notin env /\ pending = "return"
       THEN s_pc' = "done" /\ ret' = "True"
       ELSE s_pc' = "imgkit" /\ ret' = ret
    /\ pending' = "none"
    /\ UNCHANGED <<env, attempts, written, created>>
    /\ UNCHANGED <<loaderVars, paletteVars, boundsVars, mainVars>>

\* lines 267-280: imgkit.from_file(...)
SnapImgkit ==
    /\ s_pc = "imgkit"
    /\ attempts' = Append(attempts, "imgkit")
    /\ IF "imgkit" \in env
       THEN ret' = "False" /\ written' = written
       ELSE ret' = "True" /\ written' = Append(written, "imgkit")
    /\ s_pc' = "done"
    /\ UNCHANGED <<env, pending, created, quit_called>>
    /\ UNCHANGED <<loaderVars, paletteVars, boundsVars, mainVars>>

NextSnapshot ==
    \/ SnapImport
    \/ SnapChromeCreate \/ SnapChromeTry \/ SnapChromeQuit
    \/ SnapFirefoxCreate \/ SnapFirefoxTry \/ SnapFirefoxQuit
    \/ SnapImgkit

SpecSnapshot == InitSnapshot /\ [][NextSnapshot]_vars

---------------------------------------------------------------------------
(* Property of snapshot_html_to_png, under SpecSnapshot *)

ExporterOrder == <<"chrome", "firefox", "imgkit">>

Position(x) == CHOOSE k \in 1..3 : ExporterOrder[k] = x

\* C10: the exporters are attempted in the order Chrome, Firefox, imgkit;
\* none is attempted after one has written the screenshot; the call returns
\* True if and only if some exporter wrote the screenshot and False if and
\* only if all failed; quit() has been called on every driver created.
C10_FallbackChain ==
    /\ \A a \in 1..Len(attempts) : \A b \in 1..Len(attempts) :
        a < b => Position(attempts[a]) < Position(attempts[b])
    /\ Len(written) <= 1
    /\ written # <<>> => attempts[Len(attempts)] = written[1]
    /\ s_pc = "done" =>
        /\ (ret = "True") <=> (written # <<>>)
        /\ (ret = "False") <=> (written = <<>>)
        /\ created \subseteq quit_called

---------------------------------------------------------------------------
(* The whole program: any one of the functions runs *)

Init == InitLoader \/ InitPalette \/ InitBounds \/ InitMain \/ InitSnapshot

Next == NextLoader \/ NextPalette \/ NextBounds \/ NextMain \/ NextSnapshot

Spec == Init /\ [][Next]_vars

=============================================================================
